---- MODULE Spec2Model ----
(***************************************************************************)
(* lstr, interactive mode (src/src/tui.rs): the master / visible entry     *)
(* lists of AppState, the selection cursor (ListState.selected), and the   *)
(* session driver run / run_app with its terminal-mode handling.           *)
(*                                                                         *)
(* Spec        : AppState::new followed by any sequence of direct calls of *)
(*               next / previous / toggle_selected_directory (the way the  *)
(*               unit tests drive AppState).                               *)
(* SessionSpec : one call of run(): path checks, AppState::new,            *)
(*               setup_terminal, the run_app loop, restore_terminal, the   *)
(*               editor.                                                   *)
(***************************************************************************)
EXTENDS Integers, Sequences, FiniteSets, TLC

(* ------------------------------ bounds --------------------------------- *)
\* Largest number of entries the walker yields below the root, for the direct
\* calls on an AppState and for a whole session.
MaxEntries == 4
SessionMaxEntries == 3
\* Deepest entry the walker yields (children of the root have depth 1).
MaxDepth == 3
\* Width in bits of the modelled usize (the code's is 64; the model keeps the
\* wrap-around at 0 - 1 and scales the width down).
UsizeBits == 4

\* Entries of a walk of the classic view.
ViewMaxEntries == 3
\* Width of the classic view's counters (AtomicU32 in the code, scaled down).
CounterBits == 4
CounterModulus == 2 ^ CounterBits

UsizeModulus == 2 ^ UsizeBits
UsizeMax == UsizeModulus - 1

(* ------------------------------ values --------------------------------- *)
\* Option<T>: None is the empty sequence, Some(x) the one-element sequence.
None == << >>
Some(x) == << x >>
IsSome(o) == Len(o) = 1
Unwrap(o) == o[1]

Min(a, b) == IF a <= b THEN a ELSE b

\* usize subtraction in a build without overflow checks (release profile); a
\* build with overflow checks (debug profile) panics instead when a < b.
WrappingSub(a, b) == (a - b + UsizeModulus) % UsizeModulus

VARIABLES
    root_kind,        \* what args.path names: "dir", "not_dir" or "missing"
    walk,             \* what the walker yields: Seq of [ok, path, depth, is_dir]
    expand_level,     \* args.expand_level: Option<usize>
    master_entries,   \* AppState.master_entries
    visible_entries,  \* AppState.visible_entries
    selected,         \* AppState.list_state.selected(): Option<usize>
    pc,               \* position of the caller / of run()
    raw_mode,         \* terminal: raw mode enabled
    alt_screen,       \* terminal: alternate screen (and mouse capture) entered
    post_exit_action, \* what run_app returned: [kind, path]
    result,           \* how run() ended: "running", "ok", "err", "panic"
    calls,            \* history: calls made so far of setup_terminal, restore_terminal, the
                      \* editor (and its argument); whether the loop has drawn and has
                      \* read an event
    hist,             \* history: the last operation and the state it started from
    dirs_only,        \* classic view: args.dirs_only
    stdout,           \* classic view: the lines written to standard output
    stderr,           \* classic view: the messages written to standard error
    work,             \* classic view: the items the parallel walker has still to hand
                      \* to the visitor (indices into walk)
    dir_count,        \* classic view: the AtomicU32 dir_count
    file_count,       \* classic view: the AtomicU32 file_count
    visited           \* classic view, history: the items handed to the visitor so far

vars == << root_kind, walk, expand_level, master_entries, visible_entries, selected,
           pc, raw_mode, alt_screen, post_exit_action, result, calls, hist,
           dirs_only, stdout, stderr, work, dir_count, file_count, visited >>

appVars == << master_entries, visible_entries, selected >>
inputVars == << root_kind, walk, expand_level >>
termVars == << raw_mode, alt_screen >>
viewVars == << dirs_only, stdout, stderr, work, dir_count, file_count, visited >>

(* --------------------------- the walker's output ----------------------- *)
\* Shapes of a pre-order depth-first walk: the first entry has depth 1, an
\* entry is at most one level deeper than the entry before it, and only a
\* directory is followed by a deeper entry.
Shapes(max) ==
    UNION { { s \in [1..n -> [depth : 1..MaxDepth, is_dir : BOOLEAN]] :
                /\ n > 0 => s[1].depth = 1
                /\ \A i \in 1..(n - 1) :
                      /\ s[i + 1].depth <= s[i].depth + 1
                      /\ s[i + 1].depth = s[i].depth + 1 => s[i].is_dir }
            : n \in 0..max }

\* Index of the parent of entry i in shape s (0: the root).
RECURSIVE ParentIdx(_, _, _)
ParentIdx(s, i, j) ==
    IF j = 0 THEN 0
    ELSE IF s[j].depth = s[i].depth - 1 THEN j
    ELSE ParentIdx(s, i, j - 1)

\* Path of entry i relative to the root, one name per component; the name of
\* an entry is its position in the walk, so paths are unique.
RECURSIVE PathAt(_, _)
PathAt(s, i) ==
    LET p == ParentIdx(s, i, i - 1)
    IN  IF p = 0 THEN << i >> ELSE Append(PathAt(s, p), i)

\* The root's own path, and the item the walker yields for the root (depth
\* 0): Ok(entry), or Err when the root cannot be accessed.
RootPath == << >>
RootItem(ok) == [ok |-> ok, path |-> RootPath, depth |-> 0, is_dir |-> TRUE]

\* The items of a walk without errors: Ok(root), then one Ok(entry) for each
\* entry of shape s.
WalkOf(s) ==
    << RootItem(TRUE) >> \o
    [i \in 1..Len(s) |->
        [ok |-> TRUE, path |-> PathAt(s, i), depth |-> s[i].depth, is_dir |-> s[i].is_dir]]

\* A directory of walk w whose contents the walk does not show: the last
\* item, or an item followed by one that is not deeper.
ChildlessDirs(w) ==
    { k \in 1..Len(w) : w[k].is_dir /\ (k = Len(w) \/ w[k + 1].depth <= w[k].depth) }

\* Walk w with the Err the walker yields after directory k when it cannot
\* read it (k = 1: the root itself).
WithReadError(w, k) ==
    SubSeq(w, 1, k) \o
    << [ok |-> FALSE, path |-> w[k].path, depth |-> w[k].depth + 1, is_dir |-> FALSE] >> \o
    SubSeq(w, k + 1, Len(w))

\* The walks of a session: without error, with one unreadable directory, or
\* with the root item itself an Err.
SessionWalks ==
    LET clean == { WalkOf(s) : s \in Shapes(SessionMaxEntries) }
    IN  clean \cup UNION { { WithReadError(w, k) : k \in ChildlessDirs(w) } : w \in clean }
              \cup { << RootItem(FALSE) >> }

(* ------------------------------ AppState ------------------------------- *)
\* Mutant of scan_directory: the root item is not skipped.
scan_directory_keeps_root(w) ==
    LET yielded == SelectSeq(w, LAMBDA r : r.ok)
    IN  [i \in 1..Len(yielded) |->
            [path |-> yielded[i].path, depth |-> yielded[i].depth,
             is_dir |-> yielded[i].is_dir, is_expanded |-> FALSE, size |-> None,
             permissions |-> None, git_status |-> None]]

\* scan_directory: builder.build().flatten() keeps the Ok items and drops
\* every Err, the item whose path is the root is skipped, and each other
\* item gives one collapsed FileEntry; size, permissions and git_status are
\* None (args.size, args.permissions and args.git_status off). It always
\* returns Ok.
scan_directory(w) ==
    LET yielded == SelectSeq(w, LAMBDA r : r.ok /\ r.path # RootPath)
    IN  [i \in 1..Len(yielded) |->
            [path |-> yielded[i].path, depth |-> yielded[i].depth,
             is_dir |-> yielded[i].is_dir, is_expanded |-> FALSE, size |-> None,
             permissions |-> None, git_status |-> None]]

\* Mutant of PopStack: an if instead of the while, at most one pop.
PopStackOnce(stack, depth) ==
    IF Len(stack) >= depth /\ Len(stack) > 0
    THEN SubSeq(stack, 1, Len(stack) - 1)
    ELSE stack

\* Mutant of PopStack: pops while len > depth.
RECURSIVE PopStackStrict(_, _)
PopStackStrict(stack, depth) ==
    IF Len(stack) > depth
    THEN PopStackStrict(SubSeq(stack, 1, Len(stack) - 1), depth)
    ELSE stack

\* The while loop of regenerate_visible_entries: pop while len >= depth
\* (every entry has depth >= 1: the depth-0 root is skipped by scan_directory).
RECURSIVE PopStack(_, _)
PopStack(stack, depth) ==
    IF Len(stack) >= depth
    THEN PopStack(SubSeq(stack, 1, Len(stack) - 1), depth)
    ELSE stack

\* Mutant of StackAt: the entries before master[i] have pushed without
\* popping first.
RECURSIVE StackAtNoPop(_, _)
StackAtNoPop(master, i) ==
    IF i <= 1 THEN << >>
    ELSE LET entry == master[i - 1]
             kept == StackAtNoPop(master, i - 1)
         IN  IF entry.is_dir THEN Append(kept, entry.is_expanded) ELSE kept

\* parent_expanded_stack of regenerate_visible_entries when the for loop
\* comes to master[i]: every entry before it has popped, and pushed its flag
\* if it is a directory.
RECURSIVE StackAt(_, _)
StackAt(master, i) ==
    IF i <= 1 THEN << >>
    ELSE LET entry == master[i - 1]
             popped == PopStack(StackAt(master, i - 1), entry.depth)
         IN  IF entry.is_dir THEN Append(popped, entry.is_expanded) ELSE popped

\* Mutant of AllTrue: any instead of all (false on an empty stack).
AllTrueAny(stack) == \E k \in 1..Len(stack) : stack[k]

\* parent_expanded_stack.iter().all(|&x| x).
AllTrue(stack) == \A k \in 1..Len(stack) : stack[k]

\* Mutant of RegenerateFrom: a visible entry is put in front of the list.
RECURSIVE RegenerateFromPrepend(_, _, _, _)
RegenerateFromPrepend(master, i, visible, stack) ==
    IF i > Len(master) THEN visible
    ELSE LET entry == master[i]
             popped == PopStack(stack, entry.depth)
             vis2 == IF AllTrue(popped) THEN << entry >> \o visible ELSE visible
             stack2 == IF entry.is_dir THEN Append(popped, entry.is_expanded) ELSE popped
         IN  RegenerateFromPrepend(master, i + 1, vis2, stack2)

\* Mutant of RegenerateFrom: a directory pushes true whatever its flag is.
RECURSIVE RegenerateFromIgnoresFlag(_, _, _, _)
RegenerateFromIgnoresFlag(master, i, visible, stack) ==
    IF i > Len(master) THEN visible
    ELSE LET entry == master[i]
             popped == PopStack(stack, entry.depth)
             vis2 == IF AllTrue(popped) THEN Append(visible, entry) ELSE visible
             stack2 == IF entry.is_dir THEN Append(popped, TRUE) ELSE popped
         IN  RegenerateFromIgnoresFlag(master, i + 1, vis2, stack2)

\* The for loop of regenerate_visible_entries from entry i on, with the
\* visible list and the parent_expanded_stack built so far.
RECURSIVE RegenerateFrom(_, _, _, _)
RegenerateFrom(master, i, visible, stack) ==
    IF i > Len(master) THEN visible
    ELSE LET entry == master[i]
             popped == PopStack(stack, entry.depth)
             vis2 == IF AllTrue(popped) THEN Append(visible, entry) ELSE visible
             stack2 == IF entry.is_dir THEN Append(popped, entry.is_expanded) ELSE popped
         IN  RegenerateFrom(master, i + 1, vis2, stack2)

regenerate_visible_entries(master) == RegenerateFrom(master, 1, << >>, << >>)

\* Mutant of ExpandToLevel: the depth test is depth <= expand_level.
ExpandToLevelInclusive(master, level) ==
    IF IsSome(level)
    THEN [i \in 1..Len(master) |->
            IF master[i].is_dir /\ master[i].depth <= Unwrap(level)
            THEN [master[i] EXCEPT !.is_expanded = TRUE]
            ELSE master[i]]
    ELSE master

\* The expand_level loop of AppState::new.
ExpandToLevel(master, level) ==
    IF IsSome(level)
    THEN [i \in 1..Len(master) |->
            IF master[i].is_dir /\ master[i].depth < Unwrap(level)
            THEN [master[i] EXCEPT !.is_expanded = TRUE]
            ELSE master[i]]
    ELSE master

\* Mutant of AppStateNew: the visible list is built before the expand_level
\* loop.
AppStateNewRegenerateFirst(w, level) ==
    LET master == ExpandToLevel(scan_directory(w), level)
        visible == regenerate_visible_entries(scan_directory(w))
    IN  [master_entries |-> master,
         visible_entries |-> visible,
         selected |-> IF Len(visible) > 0 THEN Some(0) ELSE None]

\* AppState::new: [master_entries, visible_entries, selected].
AppStateNew(w, level) ==
    LET master == ExpandToLevel(scan_directory(w), level)
        visible == regenerate_visible_entries(master)
    IN  [master_entries |-> master,
         visible_entries |-> visible,
         selected |-> IF Len(visible) > 0 THEN Some(0) ELSE None]

\* The three fields of AppState a call works on.
App == [master_entries |-> master_entries, visible_entries |-> visible_entries,
        selected |-> selected]

\* self.visible_entries.len() - 1 as the build computes it; the subtraction
\* overflows when the list is empty.
LenMinusOne(visible) == WrappingSub(Len(visible), 1)
SubOverflows(visible) == Len(visible) = 0

\* Outcome of a call: the AppState it leaves, whether it panicked, and the
\* arithmetic / indexing fault it ran into ("none", "sub_overflow",
\* "index_oob"). oc: the build checks arithmetic overflow (it panics on
\* 0 - 1) or not (0 - 1 wraps to UsizeMax).
Outcome(a, panic, fault) == [app |-> a, panic |-> panic, fault |-> fault]

\* Mutant of next: the wrap-around test is i > len - 1.
nextLateWrap(a, oc) ==
    IF IsSome(a.selected)
    THEN LET i == Unwrap(a.selected)
         IN  IF SubOverflows(a.visible_entries) /\ oc
             THEN Outcome(a, TRUE, "sub_overflow")
             ELSE Outcome(
                    [a EXCEPT !.selected =
                        IF i > LenMinusOne(a.visible_entries) THEN Some(0) ELSE Some(i + 1)],
                    FALSE,
                    IF SubOverflows(a.visible_entries) THEN "sub_overflow" ELSE "none")
    ELSE Outcome([a EXCEPT !.selected = Some(0)], FALSE, "none")

\* AppState::next.
next(a, oc) ==
    IF IsSome(a.selected)
    THEN LET i == Unwrap(a.selected)
         IN  IF SubOverflows(a.visible_entries) /\ oc
             THEN Outcome(a, TRUE, "sub_overflow")
             ELSE Outcome(
                    [a EXCEPT !.selected =
                        IF i >= LenMinusOne(a.visible_entries) THEN Some(0) ELSE Some(i + 1)],
                    FALSE,
                    IF SubOverflows(a.visible_entries) THEN "sub_overflow" ELSE "none")
    ELSE Outcome([a EXCEPT !.selected = Some(0)], FALSE, "none")

\* Mutant of previous: at the top of the list the selection is dropped.
previousStopsAtTop(a, oc) ==
    IF IsSome(a.selected)
    THEN LET i == Unwrap(a.selected)
         IN  IF i = 0
             THEN Outcome([a EXCEPT !.selected = None], FALSE, "none")
             ELSE Outcome([a EXCEPT !.selected = Some(i - 1)], FALSE, "none")
    ELSE Outcome([a EXCEPT !.selected = Some(0)], FALSE, "none")

\* AppState::previous.
previous(a, oc) ==
    IF IsSome(a.selected)
    THEN LET i == Unwrap(a.selected)
         IN  IF i = 0
             THEN IF SubOverflows(a.visible_entries) /\ oc
                  THEN Outcome(a, TRUE, "sub_overflow")
                  ELSE Outcome(
                         [a EXCEPT !.selected = Some(LenMinusOne(a.visible_entries))],
                         FALSE,
                         IF SubOverflows(a.visible_entries) THEN "sub_overflow" ELSE "none")
             ELSE Outcome([a EXCEPT !.selected = Some(i - 1)], FALSE, "none")
    ELSE Outcome([a EXCEPT !.selected = Some(0)], FALSE, "none")

\* Mutant of get_selected_entry: the entry before the selected one.
get_selected_entry_before(a) ==
    IF IsSome(a.selected) /\ Unwrap(a.selected) < Len(a.visible_entries)
       /\ Unwrap(a.selected) >= 1
    THEN Some(a.visible_entries[Unwrap(a.selected)])
    ELSE None

\* AppState::get_selected_entry: selected().and_then(|i| visible_entries.get(i)).
get_selected_entry(a) ==
    IF IsSome(a.selected) /\ Unwrap(a.selected) < Len(a.visible_entries)
    THEN Some(a.visible_entries[Unwrap(a.selected) + 1])
    ELSE None

\* iter().position(|e| e.path == path): 0-based index of the first match.
Position(entries, path) ==
    IF \E k \in 1..Len(entries) : entries[k].path = path
    THEN Some((CHOOSE k \in 1..Len(entries) :
                  /\ entries[k].path = path
                  /\ \A j \in 1..(k - 1) : entries[j].path # path) - 1)
    ELSE None

\* Mutant of FlipFound: the is_dir test is missing.
FlipFoundAnyKind(master, path) ==
    LET found == Position(master, path)
    IN  IF IsSome(found)
        THEN [master EXCEPT ![Unwrap(found) + 1].is_expanded = ~ @]
        ELSE master

\* Mutant of FlipFound: on a file, the flag of the file's parent directory is
\* flipped.
FlipFoundOrParent(master, path) ==
    LET found == Position(master, path)
        parent == Position(master, SubSeq(path, 1, Len(path) - 1))
    IN  IF IsSome(found) /\ master[Unwrap(found) + 1].is_dir
        THEN [master EXCEPT ![Unwrap(found) + 1].is_expanded = ~ @]
        ELSE IF IsSome(found) /\ IsSome(parent)
        THEN [master EXCEPT ![Unwrap(parent) + 1].is_expanded = ~ @]
        ELSE master

\* Mutant of FlipFound: collapsing a directory also removes the entries
\* below it from the list.
FlipFoundDropChildren(master, path) ==
    LET found == Position(master, path)
        IsBelow(e) == Len(path) < Len(e.path) /\ SubSeq(e.path, 1, Len(path)) = path
    IN  IF IsSome(found) /\ master[Unwrap(found) + 1].is_dir
        THEN IF master[Unwrap(found) + 1].is_expanded
             THEN SelectSeq([master EXCEPT ![Unwrap(found) + 1].is_expanded = FALSE],
                            LAMBDA e : ~ IsBelow(e))
             ELSE [master EXCEPT ![Unwrap(found) + 1].is_expanded = TRUE]
        ELSE master

\* Mutant of FlipFound: the flag is set instead of negated.
FlipFoundExpandOnly(master, path) ==
    LET found == Position(master, path)
    IN  IF IsSome(found) /\ master[Unwrap(found) + 1].is_dir
        THEN [master EXCEPT ![Unwrap(found) + 1].is_expanded = TRUE]
        ELSE master

\* Mutant of FlipFound: collapsing a directory also collapses every
\* directory below it.
FlipFoundCollapseBelow(master, path) ==
    LET found == Position(master, path)
    IN  IF IsSome(found) /\ master[Unwrap(found) + 1].is_dir
        THEN IF master[Unwrap(found) + 1].is_expanded
             THEN [i \in 1..Len(master) |->
                     IF master[i].path = path
                        \/ (Len(path) < Len(master[i].path)
                            /\ SubSeq(master[i].path, 1, Len(path)) = path)
                     THEN [master[i] EXCEPT !.is_expanded = FALSE]
                     ELSE master[i]]
             ELSE [master EXCEPT ![Unwrap(found) + 1].is_expanded = TRUE]
        ELSE master

\* iter_mut().find(|e| e.path == path) followed by the flip of a directory's
\* is_expanded.
FlipFound(master, path) ==
    LET found == Position(master, path)
    IN  IF IsSome(found) /\ master[Unwrap(found) + 1].is_dir
        THEN [master EXCEPT ![Unwrap(found) + 1].is_expanded = ~ @]
        ELSE master

\* Mutant of Reanchor: the cursor goes back to the top of the list.
ReanchorTop(b, selected_index, selected_path, oc) ==
    Outcome([b EXCEPT !.selected = Some(0)], FALSE, "none")

\* Mutant of Reanchor: the cursor goes to the last entry of the list.
ReanchorLast(b, selected_index, selected_path, oc) ==
    Outcome([b EXCEPT !.selected = Some(Len(b.visible_entries) - 1)], FALSE, "none")

\* The re-anchoring of toggle_selected_directory (lines 142-149), on the
\* AppState b that holds the flipped master list and the new visible list.
Reanchor(b, selected_index, selected_path, oc) ==
    LET new_index == Position(b.visible_entries, selected_path)
    IN  IF IsSome(new_index)
        THEN Outcome([b EXCEPT !.selected = new_index], FALSE, "none")
        ELSE IF SubOverflows(b.visible_entries) /\ oc
        THEN Outcome(b, TRUE, "sub_overflow")
        ELSE Outcome(
               [b EXCEPT !.selected =
                   Some(Min(selected_index, LenMinusOne(b.visible_entries)))],
               FALSE,
               IF SubOverflows(b.visible_entries) THEN "sub_overflow" ELSE "none")

\* Mutant of toggle_selected_directory: the visible list is not rebuilt
\* after the flip.
toggle_without_regenerate(a, oc) ==
    IF IsSome(a.selected)
    THEN LET selected_index == Unwrap(a.selected)
         IN  IF selected_index >= Len(a.visible_entries)
             THEN Outcome(a, TRUE, "index_oob")
             ELSE LET selected_path == a.visible_entries[selected_index + 1].path
                      master == FlipFound(a.master_entries, selected_path)
                  IN  Reanchor([a EXCEPT !.master_entries = master],
                               selected_index, selected_path, oc)
    ELSE Outcome(a, FALSE, "none")

\* AppState::toggle_selected_directory; visible_entries[selected_index]
\* panics when the index is not below the length.
toggle_selected_directory(a, oc) ==
    IF IsSome(a.selected)
    THEN LET selected_index == Unwrap(a.selected)
         IN  IF selected_index >= Len(a.visible_entries)
             THEN Outcome(a, TRUE, "index_oob")
             ELSE LET selected_path == a.visible_entries[selected_index + 1].path
                      master == FlipFound(a.master_entries, selected_path)
                      visible == regenerate_visible_entries(master)
                  IN  Reanchor([a EXCEPT !.master_entries = master,
                                         !.visible_entries = visible],
                               selected_index, selected_path, oc)
    ELSE Outcome(a, FALSE, "none")

(* ------------------ Spec: direct calls on an AppState ------------------ *)
ExpandLevels == { None } \cup { Some(l) : l \in 0..MaxDepth }
\* A session, and the direct calls of Spec, start collapsed or expanded to
\* every level but the last (ConstructSpec covers every level).
SessionExpandLevels == { None, Some(MaxDepth - 1) }

NoAction == [kind |-> "Unset", path |-> << >>]

\* The classic view has not run: nothing written, no walker, both counters 0.
ViewIdle ==
    /\ dirs_only = FALSE
    /\ stdout = << >>
    /\ stderr = << >>
    /\ work = {}
    /\ dir_count = 0
    /\ file_count = 0
    /\ visited = {}
NoCalls == [setup |-> 0, restore |-> 0, editor |-> 0, editor_arg |-> << >>,
            drawn |-> FALSE, key_read |-> FALSE]

\* The state a call leaves behind.
Apply(op, out) ==
    /\ master_entries' = out.app.master_entries
    /\ visible_entries' = out.app.visible_entries
    /\ selected' = out.app.selected
    /\ hist' = [op |-> op, event |-> "", pre |-> App, fault |-> out.fault,
                 panic |-> out.panic]

Init ==
    /\ root_kind = "dir"
    /\ walk \in { WalkOf(s) : s \in Shapes(MaxEntries) }
    /\ expand_level \in SessionExpandLevels
    /\ LET a == AppStateNew(walk, expand_level)
       IN  /\ master_entries = a.master_entries
           /\ visible_entries = a.visible_entries
           /\ selected = a.selected
           /\ hist = [op |-> "new", event |-> "", pre |-> a, fault |-> "none",
                      panic |-> FALSE]
    /\ pc = "ready"
    /\ raw_mode = FALSE
    /\ alt_screen = FALSE
    /\ post_exit_action = NoAction
    /\ result = "running"
    /\ calls = NoCalls
    /\ ViewIdle

Call(op, out) ==
    /\ pc = "ready"
    /\ Apply(op, out)
    /\ pc' = IF out.panic THEN "panicked" ELSE "ready"
    /\ UNCHANGED << viewVars, inputVars, termVars, post_exit_action, result, calls >>

CallNext == \E oc \in BOOLEAN : Call("next", next(App, oc))

CallPrevious == \E oc \in BOOLEAN : Call("previous", previous(App, oc))

CallToggle == \E oc \in BOOLEAN : Call("toggle", toggle_selected_directory(App, oc))

Next == CallNext \/ CallPrevious \/ CallToggle

Spec == Init /\ [][Next]_vars

(* ------------- ConstructSpec: AppState::new on every input ------------- *)
ConstructInit ==
    /\ root_kind = "dir"
    /\ walk \in { WalkOf(s) : s \in Shapes(MaxEntries) }
    /\ expand_level \in ExpandLevels
    /\ master_entries = << >>
    /\ visible_entries = << >>
    /\ selected = None
    /\ hist = [op |-> "none", event |-> "",
               pre |-> [master_entries |-> << >>, visible_entries |-> << >>,
                        selected |-> None],
               fault |-> "none", panic |-> FALSE]
    /\ pc = "construct"
    /\ raw_mode = FALSE
    /\ alt_screen = FALSE
    /\ post_exit_action = NoAction
    /\ result = "running"
    /\ calls = NoCalls
    /\ ViewIdle

\* AppState::new(args, root_path).
Construct ==
    /\ pc = "construct"
    /\ Apply("new", Outcome(AppStateNew(walk, expand_level), FALSE, "none"))
    /\ pc' = "ready"
    /\ UNCHANGED << viewVars, inputVars, termVars, post_exit_action, result, calls >>

ConstructNext == Construct

ConstructSpec == ConstructInit /\ [][ConstructNext]_vars

(* -------------------- SessionSpec: one call of run() ------------------- *)
\* The events event::read() delivers, by what run_app's match does with them.
QuitKeys == {"q", "Esc"}
DownKeys == {"Down", "j"}
UpKeys == {"Up", "k"}
Events == QuitKeys \cup DownKeys \cup UpKeys \cup {"Enter", "other_key", "non_key"}

ExitNone == [kind |-> "None", path |-> << >>]
OpenFile(path) == [kind |-> "OpenFile", path |-> path]

\* Mutant of HandleEvent: the is_dir test of Enter is inverted.
HandleEventInverted(a, ev, oc) ==
    IF ev \in QuitKeys THEN [out |-> Outcome(a, FALSE, "none"), exit |-> ExitNone]
    ELSE IF ev \in DownKeys THEN [out |-> next(a, oc), exit |-> NoAction]
    ELSE IF ev \in UpKeys THEN [out |-> previous(a, oc), exit |-> NoAction]
    ELSE IF ev = "Enter"
    THEN LET entry == get_selected_entry(a)
         IN  IF IsSome(entry)
             THEN IF ~ Unwrap(entry).is_dir
                  THEN [out |-> toggle_selected_directory(a, oc), exit |-> NoAction]
                  ELSE [out |-> Outcome(a, FALSE, "none"),
                        exit |-> OpenFile(Unwrap(entry).path)]
             ELSE [out |-> Outcome(a, FALSE, "none"), exit |-> NoAction]
    ELSE [out |-> Outcome(a, FALSE, "none"), exit |-> NoAction]

\* Mutant of HandleEvent: a key without an arm of its own moves the cursor
\* down.
HandleEventOtherMoves(a, ev, oc) ==
    IF ev \in QuitKeys THEN [out |-> Outcome(a, FALSE, "none"), exit |-> ExitNone]
    ELSE IF ev \in DownKeys \cup {"other_key"} THEN [out |-> next(a, oc), exit |-> NoAction]
    ELSE IF ev \in UpKeys THEN [out |-> previous(a, oc), exit |-> NoAction]
    ELSE IF ev = "Enter"
    THEN LET entry == get_selected_entry(a)
         IN  IF IsSome(entry)
             THEN IF Unwrap(entry).is_dir
                  THEN [out |-> toggle_selected_directory(a, oc), exit |-> NoAction]
                  ELSE [out |-> Outcome(a, FALSE, "none"),
                        exit |-> OpenFile(Unwrap(entry).path)]
             ELSE [out |-> Outcome(a, FALSE, "none"), exit |-> NoAction]
    ELSE [out |-> Outcome(a, FALSE, "none"), exit |-> NoAction]

\* The match of run_app on one event: the outcome of the AppState call it
\* makes and the PostExitAction it breaks the loop with (NoAction: the loop
\* goes on).
HandleEvent(a, ev, oc) ==
    IF ev \in QuitKeys THEN [out |-> Outcome(a, FALSE, "none"), exit |-> ExitNone]
    ELSE IF ev \in DownKeys THEN [out |-> next(a, oc), exit |-> NoAction]
    ELSE IF ev \in UpKeys THEN [out |-> previous(a, oc), exit |-> NoAction]
    ELSE IF ev = "Enter"
    THEN LET entry == get_selected_entry(a)
         IN  IF IsSome(entry)
             THEN IF Unwrap(entry).is_dir
                  THEN [out |-> toggle_selected_directory(a, oc), exit |-> NoAction]
                  ELSE [out |-> Outcome(a, FALSE, "none"),
                        exit |-> OpenFile(Unwrap(entry).path)]
             ELSE [out |-> Outcome(a, FALSE, "none"), exit |-> NoAction]
    ELSE [out |-> Outcome(a, FALSE, "none"), exit |-> NoAction]

\* What the List widget may do to ListState.selected while it renders
\* (render_stateful_widget gets &mut list_state): nothing, or, in the
\* library versions that normalise the selection, None for an empty list and
\* the last index for an index past the end.
ListWidgetSelect(sel, len, normalises) ==
    IF ~ normalises THEN sel
    ELSE IF len = 0 THEN None
    ELSE IF IsSome(sel) /\ Unwrap(sel) >= len THEN Some(len - 1)
    ELSE sel

Step(op, ev) == [op |-> op, event |-> ev, pre |-> App, fault |-> "none", panic |-> FALSE]

\* run() returns Err (bail! or ?).
ReturnErr == pc' = "done" /\ result' = "err"

SInit ==
    /\ root_kind \in {"dir", "not_dir", "missing"}
    /\ walk \in IF root_kind = "dir" THEN SessionWalks ELSE { << >> }
    /\ expand_level \in SessionExpandLevels
    /\ master_entries = << >>
    /\ visible_entries = << >>
    /\ selected = None
    /\ hist = [op |-> "none", event |-> "",
               pre |-> [master_entries |-> << >>, visible_entries |-> << >>,
                        selected |-> None],
               fault |-> "none", panic |-> FALSE]
    /\ pc = "start"
    /\ raw_mode = FALSE
    /\ alt_screen = FALSE
    /\ post_exit_action = NoAction
    /\ result = "running"
    /\ calls = NoCalls
    /\ ViewIdle

\* Mutant of CheckPath: the is_dir test is missing.
CheckPathNoDirTest ==
    /\ pc = "start"
    /\ hist' = Step("check_path", "")
    /\ IF root_kind # "missing"
       THEN pc' = "new" /\ result' = result
       ELSE ReturnErr
    /\ UNCHANGED << viewVars, inputVars, appVars, termVars, post_exit_action, calls >>

\* run, lines 155-162: canonicalize the path and test is_dir.
CheckPath ==
    /\ pc = "start"
    /\ hist' = Step("check_path", "")
    /\ IF root_kind = "dir"
       THEN pc' = "new" /\ result' = result
       ELSE ReturnErr
    /\ UNCHANGED << viewVars, inputVars, appVars, termVars, post_exit_action, calls >>

\* Mutant of NewAppState: run goes on to run_app without setup_terminal.
NewAppStateNoSetup ==
    /\ pc = "new"
    /\ LET a == AppStateNew(walk, expand_level)
       IN  /\ master_entries' = a.master_entries
           /\ visible_entries' = a.visible_entries
           /\ selected' = a.selected
    /\ hist' = Step("new", "")
    /\ pc' = "draw"
    /\ UNCHANGED << viewVars, inputVars, termVars, post_exit_action, result, calls >>

\* run, line 164: AppState::new (args.git_status off: nothing in it fails).
NewAppState ==
    /\ pc = "new"
    /\ LET a == AppStateNew(walk, expand_level)
       IN  /\ master_entries' = a.master_entries
           /\ visible_entries' = a.visible_entries
           /\ selected' = a.selected
    /\ hist' = Step("new", "")
    /\ pc' = "setup"
    /\ UNCHANGED << viewVars, inputVars, termVars, post_exit_action, result, calls >>

\* run, line 165: setup_terminal. enable_raw_mode, then execute!(Enter
\* AlternateScreen, EnableMouseCapture), then Terminal::new; the first
\* failure returns through ? and undoes nothing. A failed execute! may or
\* may not have sent its escape sequences.
SetupTerminal ==
    /\ pc = "setup"
    /\ calls' = [calls EXCEPT !.setup = @ + 1]
    /\ hist' = Step("setup_terminal", "")
    /\ \E o \in {"ok", "raw_fails", "alt_fails", "terminal_fails"}, sent \in BOOLEAN :
          /\ raw_mode' = (o # "raw_fails")
          /\ alt_screen' = (o \in {"ok", "terminal_fails"} \/ (o = "alt_fails" /\ sent))
          /\ IF o = "ok" THEN pc' = "draw" /\ result' = result ELSE ReturnErr
    /\ UNCHANGED << viewVars, inputVars, appVars, post_exit_action >>

\* run_app, line 188: terminal.draw(|f| ui(f, app_state, args))?.
Draw ==
    /\ pc = "draw"
    /\ hist' = Step("draw", "")
    /\ \E ok \in BOOLEAN, normalises \in BOOLEAN :
          IF ok
          THEN /\ selected' = ListWidgetSelect(selected, Len(visible_entries), normalises)
               /\ calls' = [calls EXCEPT !.drawn = TRUE]
               /\ pc' = "read"
               /\ result' = result
          ELSE /\ selected' = selected
               /\ calls' = calls
               /\ ReturnErr
    /\ UNCHANGED << viewVars, inputVars, master_entries, visible_entries, termVars,
                    post_exit_action >>

\* run_app, lines 189-205: event::read()? and the handling of the event; a
\* break goes on to restore_terminal (run, line 167), a panic unwinds out of
\* run.
ReadEvent ==
    /\ pc = "read"
    /\ \/ /\ hist' = Step("read", "read_fails")
          /\ ReturnErr
          /\ UNCHANGED << appVars, post_exit_action, calls >>
       \/ \E ev \in Events, oc \in BOOLEAN :
             LET h == HandleEvent(App, ev, oc)
             IN  /\ calls' = [calls EXCEPT !.key_read = TRUE]
                 /\ master_entries' = h.out.app.master_entries
                 /\ visible_entries' = h.out.app.visible_entries
                 /\ selected' = h.out.app.selected
                 /\ hist' = [op |-> "read", event |-> ev, pre |-> App,
                             fault |-> h.out.fault, panic |-> h.out.panic]
                 /\ post_exit_action' = h.exit
                 /\ IF h.out.panic THEN pc' = "done" /\ result' = "panic"
                    ELSE IF h.exit = NoAction THEN pc' = "draw" /\ result' = result
                    ELSE pc' = "restore" /\ result' = result
    /\ UNCHANGED << viewVars, inputVars, termVars >>

\* Mutant of RestoreTerminal: run goes on to the editor whatever the
\* PostExitAction is.
RestoreTerminalAlwaysEditor ==
    /\ pc = "restore"
    /\ calls' = [calls EXCEPT !.restore = @ + 1]
    /\ hist' = Step("restore_terminal", "")
    /\ \E o \in {"ok", "raw_fails", "alt_fails", "cursor_fails"}, sent \in BOOLEAN :
          /\ raw_mode' = (o = "raw_fails")
          /\ alt_screen' = (o = "raw_fails" \/ (o = "alt_fails" /\ ~ sent))
          /\ IF o # "ok" THEN ReturnErr ELSE pc' = "editor" /\ result' = result
    /\ UNCHANGED << viewVars, inputVars, appVars, post_exit_action >>

\* Mutant of RestoreTerminal: the error of restore_terminal is dropped and
\* run goes on.
RestoreTerminalIgnoresError ==
    /\ pc = "restore"
    /\ calls' = [calls EXCEPT !.restore = @ + 1]
    /\ hist' = Step("restore_terminal", "")
    /\ \E o \in {"ok", "raw_fails", "alt_fails", "cursor_fails"}, sent \in BOOLEAN :
          /\ raw_mode' = (o = "raw_fails")
          /\ alt_screen' = (o = "raw_fails" \/ (o = "alt_fails" /\ ~ sent))
          /\ IF post_exit_action.kind = "OpenFile" THEN pc' = "editor" /\ result' = result
             ELSE pc' = "done" /\ result' = "ok"
    /\ UNCHANGED << viewVars, inputVars, appVars, post_exit_action >>

\* run, line 167: restore_terminal(&mut terminal)?. disable_raw_mode, then
\* execute!(LeaveAlternateScreen, DisableMouseCapture), then show_cursor; the
\* first failure returns through ?. A failed execute! may or may not have
\* sent its escape sequences.
RestoreTerminal ==
    /\ pc = "restore"
    /\ calls' = [calls EXCEPT !.restore = @ + 1]
    /\ hist' = Step("restore_terminal", "")
    /\ \E o \in {"ok", "raw_fails", "alt_fails", "cursor_fails"}, sent \in BOOLEAN :
          /\ raw_mode' = (o = "raw_fails")
          /\ alt_screen' = (o = "raw_fails" \/ (o = "alt_fails" /\ ~ sent))
          /\ IF o # "ok" THEN ReturnErr
             ELSE IF post_exit_action.kind = "OpenFile" THEN pc' = "editor" /\ result' = result
             ELSE pc' = "done" /\ result' = "ok"
    /\ UNCHANGED << viewVars, inputVars, appVars, post_exit_action >>

\* run, lines 169-179: Command::new(editor).arg(path).status()?; the exit
\* status is dropped, a failure to start the editor returns through ?.
LaunchEditor ==
    /\ pc = "editor"
    /\ calls' = [calls EXCEPT !.editor = @ + 1, !.editor_arg = post_exit_action.path]
    /\ \E o \in {"exit_zero", "exit_nonzero", "spawn_fails"} :
          /\ hist' = Step("editor", o)
          /\ pc' = "done"
          /\ result' = IF o = "spawn_fails" THEN "err" ELSE "ok"
    /\ UNCHANGED << viewVars, inputVars, appVars, termVars, post_exit_action >>

SessionNext ==
    \/ CheckPath
    \/ NewAppState
    \/ SetupTerminal
    \/ Draw
    \/ ReadEvent
    \/ RestoreTerminal
    \/ LaunchEditor

SessionSpec == SInit /\ [][SessionNext]_vars

(* ------------------ ViewSpec: one call of view::run -------------------- *)
\* The walks of the classic view: without error, with one unreadable
\* directory, or with the root item itself an Err.
ViewWalks ==
    LET clean == { WalkOf(s) : s \in Shapes(ViewMaxEntries) }
    IN  clean \cup UNION { { WithReadError(w, k) : k \in ChildlessDirs(w) } : w \in clean }
              \cup { << RootItem(FALSE) >> }

\* The item of walk w whose directory listing yields item j (0: the walk
\* starts with item j). The parallel walker hands an item to the visitor
\* only after the directory that lists it.
Yielder(w, j) ==
    IF w[j].depth = 0 THEN 0
    ELSE LET dir == IF w[j].ok THEN SubSeq(w[j].path, 1, Len(w[j].path) - 1)
                    ELSE w[j].path
         IN  CHOOSE i \in 1..Len(w) : w[i].ok /\ w[i].is_dir /\ w[i].path = dir

\* The items the walker queues when the visitor has seen item k.
Children(w, k) == { j \in 1..Len(w) : Yielder(w, j) = k }

\* The connector both writeln! calls of the visitor print (U+2514 U+2500
\* U+2500 and a space), in ASCII.
Connector == "L-- "

\* entry.depth().saturating_sub(1): the number of four-space indents.
IndentOf(depth) == IF depth >= 1 THEN depth - 1 ELSE 0

\* The lines of the output: the header (args.path), one line per entry
\* (indent, connector, file name), the summary (both counters).
Line(kind, indent, connector, path, dirs, files) ==
    [kind |-> kind, indent |-> indent, connector |-> connector, path |-> path,
     name |-> IF Len(path) > 0 THEN path[Len(path)] ELSE 0,
     dirs |-> dirs, files |-> files]
HeaderLine == Line("header", 0, "", RootPath, 0, 0)
EntryLine(item) == Line("entry", IndentOf(item.depth), Connector, item.path, 0, 0)
SummaryLine(dirs, files) == Line("summary", 0, "", RootPath, dirs, files)

ViewInit ==
    /\ root_kind \in {"dir", "not_dir", "missing"}
    /\ walk \in IF root_kind = "dir" THEN ViewWalks ELSE { << >> }
    /\ dirs_only \in BOOLEAN
    /\ expand_level = None
    /\ master_entries = << >>
    /\ visible_entries = << >>
    /\ selected = None
    /\ hist = [op |-> "none", event |-> "",
               pre |-> [master_entries |-> << >>, visible_entries |-> << >>,
                        selected |-> None],
               fault |-> "none", panic |-> FALSE]
    /\ pc = "view_start"
    /\ raw_mode = FALSE
    /\ alt_screen = FALSE
    /\ post_exit_action = NoAction
    /\ result = "running"
    /\ calls = NoCalls
    /\ stdout = << >>
    /\ stderr = << >>
    /\ work = {}
    /\ dir_count = 0
    /\ file_count = 0
    /\ visited = {}

\* What no step of the classic view changes.
viewFrame == << root_kind, walk, expand_level, dirs_only, appVars, termVars,
                post_exit_action, calls >>

\* Mutant of ViewCheckPath: the is_dir test is missing.
ViewCheckPathNoTest ==
    /\ pc = "view_start"
    /\ hist' = Step("check_path", "")
    /\ \E canonical \in BOOLEAN :
          IF canonical \/ root_kind # "dir"
          THEN pc' = "header" /\ result' = result /\ stderr' = stderr
          ELSE ReturnErr /\ stderr' = Append(stderr, "canonicalize failed")
    /\ UNCHANGED << viewFrame, stdout, work, dir_count, file_count, visited >>

\* view::run, lines 20-23: bail! unless args.path.is_dir(), then
\* fs::canonicalize(&args.path)?. The error run returns is reported on
\* standard error by its caller.
ViewCheckPath ==
    /\ pc = "view_start"
    /\ hist' = Step("check_path", "")
    /\ IF root_kind # "dir"
       THEN ReturnErr /\ stderr' = Append(stderr, "is not a directory")
       ELSE \E canonical \in BOOLEAN :
               IF canonical
               THEN pc' = "header" /\ result' = result /\ stderr' = stderr
               ELSE ReturnErr /\ stderr' = Append(stderr, "canonicalize failed")
    /\ UNCHANGED << viewFrame, stdout, work, dir_count, file_count, visited >>

\* view::run, lines 31-48: the header is written (a failed write makes run
\* return Ok at once), then the parallel walker is built and started on
\* args.path (args.git_status off).
ViewHeader ==
    /\ pc = "header"
    /\ hist' = Step("header", "")
    /\ \E written \in BOOLEAN :
          IF written
          THEN /\ stdout' = Append(stdout, HeaderLine)
               /\ work' = Children(walk, 0)
               /\ pc' = "walk"
               /\ result' = result
          ELSE /\ stdout' = stdout
               /\ work' = work
               /\ pc' = "done"
               /\ result' = "ok"
    /\ UNCHANGED << viewFrame, stderr, dir_count, file_count, visited >>

\* Mutant of ViewVisit: the depth-0 item is not passed over.
ViewVisitKeepsRoot ==
    /\ pc = "walk"
    /\ hist' = Step("visit", "")
    /\ \E k \in work, written \in BOOLEAN :
          LET item == walk[k]
              queued == (work \ {k}) \cup Children(walk, k)
          IN  /\ visited' = visited \cup {k}
              /\ IF ~ item.ok
                 THEN /\ stderr' = Append(stderr, "ERROR")
                      /\ work' = queued
                      /\ UNCHANGED << stdout, dir_count, file_count >>
                 ELSE IF dirs_only /\ ~ item.is_dir
                 THEN /\ work' = queued
                      /\ UNCHANGED << stdout, stderr, dir_count, file_count >>
                 ELSE /\ dir_count' = IF item.is_dir THEN (dir_count + 1) % CounterModulus
                                      ELSE dir_count
                      /\ file_count' = IF item.is_dir THEN file_count
                                       ELSE (file_count + 1) % CounterModulus
                      /\ stdout' = IF written THEN Append(stdout, EntryLine(item))
                                   ELSE stdout
                      /\ work' = IF written THEN queued ELSE {}
                      /\ stderr' = stderr
    /\ UNCHANGED << viewFrame, pc, result >>

\* view::run, lines 59-180: one call of the visitor closure, on the item a
\* worker thread of the walker picked; any queued item can be the next. An
\* Err is reported on standard error, the depth-0 item and (with dirs_only)
\* the files are passed over, every other item is counted and written as one
\* line; a failed write stops the walk (WalkState::Quit).
ViewVisit ==
    /\ pc = "walk"
    /\ hist' = Step("visit", "")
    /\ \E k \in work, written \in BOOLEAN :
          LET item == walk[k]
              queued == (work \ {k}) \cup Children(walk, k)
          IN  /\ visited' = visited \cup {k}
              /\ IF ~ item.ok
                 THEN /\ stderr' = Append(stderr, "ERROR")
                      /\ work' = queued
                      /\ UNCHANGED << stdout, dir_count, file_count >>
                 ELSE IF item.depth = 0 \/ (dirs_only /\ ~ item.is_dir)
                 THEN /\ work' = queued
                      /\ UNCHANGED << stdout, stderr, dir_count, file_count >>
                 ELSE /\ dir_count' = IF item.is_dir THEN (dir_count + 1) % CounterModulus
                                      ELSE dir_count
                      /\ file_count' = IF item.is_dir THEN file_count
                                       ELSE (file_count + 1) % CounterModulus
                      /\ stdout' = IF written THEN Append(stdout, EntryLine(item))
                                   ELSE stdout
                      /\ work' = IF written THEN queued ELSE {}
                      /\ stderr' = stderr
    /\ UNCHANGED << viewFrame, pc, result >>

\* view::run, lines 184-191: when the walker has run out of items the
\* summary is written (a failed write is ignored) and run returns Ok.
ViewSummary ==
    /\ pc = "walk"
    /\ work = {}
    /\ hist' = Step("summary", "")
    /\ \E written \in BOOLEAN :
          stdout' = IF written THEN Append(stdout, SummaryLine(dir_count, file_count))
                    ELSE stdout
    /\ pc' = "done"
    /\ result' = "ok"
    /\ UNCHANGED << viewFrame, stderr, work, dir_count, file_count, visited >>

ViewNext ==
    \/ ViewCheckPath
    \/ ViewHeader
    \/ ViewVisit
    \/ ViewSummary

ViewSpec == ViewInit /\ [][ViewNext]_vars

(* ----------------------- properties of AppState ------------------------ *)
IsProperPrefix(p, q) == Len(p) < Len(q) /\ SubSeq(q, 1, Len(p)) = p

\* The directory ancestors of master entry i: the directories whose path is
\* a proper prefix of its path.
Ancestors(master, i) ==
    { j \in 1..Len(master) :
        master[j].is_dir /\ IsProperPrefix(master[j].path, master[i].path) }

InList(entries, path) == \E k \in 1..Len(entries) : entries[k].path = path

\* The last call started with the cursor on an entry of the visible list.
CalledOnEntry(op) ==
    /\ hist.op = op
    /\ IsSome(hist.pre.selected)
    /\ Unwrap(hist.pre.selected) < Len(hist.pre.visible_entries)

PreSelectedEntry == hist.pre.visible_entries[Unwrap(hist.pre.selected) + 1]

\* C1: in every state reached by AppState::new and next / previous / toggle
\* calls, a master entry is in the visible list if and only if all of its
\* directory ancestors are expanded; entries of depth 1 are always visible.
C1_VisibleIffAncestorsExpanded ==
    \A i \in 1..Len(master_entries) :
        /\ InList(visible_entries, master_entries[i].path)
              <=> \A j \in Ancestors(master_entries, i) : master_entries[j].is_expanded
        /\ master_entries[i].depth = 1 => InList(visible_entries, master_entries[i].path)

\* C1 witness: after a toggle, an entry is hidden although its parent is
\* expanded, because its grandparent is collapsed, and a depth-1 entry is shown.
C1_Witness ==
    /\ hist.op = "toggle"
    /\ \E i \in 1..Len(master_entries) :
          /\ ~ InList(visible_entries, master_entries[i].path)
          /\ \E j, k \in Ancestors(master_entries, i) :
                /\ master_entries[j].is_expanded
                /\ ~ master_entries[k].is_expanded
                /\ master_entries[k].depth < master_entries[j].depth

\* C2 (as claimed): the cursor index is undefined or below the length of the
\* visible list, and it is undefined only when the visible list is empty.
C2_CursorInRange ==
    /\ IsSome(selected) => Unwrap(selected) < Len(visible_entries)
    /\ ~ IsSome(selected) => Len(visible_entries) = 0

\* C5 (as claimed): next and previous on an empty visible list leave the
\* cursor undefined and do not fail.
C5_EmptyListNoOp ==
    (hist.op \in {"next", "previous"} /\ Len(hist.pre.visible_entries) = 0)
        => (selected = None /\ ~ hist.panic /\ hist.fault = "none")

\* C6: a toggle with the cursor on the entry with path p changes the
\* is_expanded flag of a master entry if and only if that entry has path p
\* and is a directory; with the cursor on a file no flag changes.
C6_ToggleFlipsOnlySelectedDir ==
    CalledOnEntry("toggle") =>
        /\ Len(master_entries) = Len(hist.pre.master_entries)
        /\ \A i \in 1..Len(master_entries) :
              (master_entries[i].is_expanded # hist.pre.master_entries[i].is_expanded)
                  <=> (/\ master_entries[i].path = PreSelectedEntry.path
                       /\ master_entries[i].is_dir)
        /\ ~ PreSelectedEntry.is_dir =>
              \A i \in 1..Len(master_entries) :
                  master_entries[i].is_expanded = hist.pre.master_entries[i].is_expanded

\* C6 witness: a toggle flipped the selected directory while another
\* directory kept its expanded flag.
C6_Witness ==
    /\ CalledOnEntry("toggle")
    /\ PreSelectedEntry.is_dir
    /\ \E i, j \in 1..Len(master_entries) :
          /\ master_entries[i].path = PreSelectedEntry.path
          /\ master_entries[i].is_expanded # hist.pre.master_entries[i].is_expanded
          /\ i # j
          /\ master_entries[j].is_dir
          /\ master_entries[j].is_expanded
          /\ hist.pre.master_entries[j].is_expanded

\* C7: after a toggle, if the path that was under the cursor is in the new
\* visible list, the cursor is on the position of that path.
C7_CursorFollowsPath ==
    (CalledOnEntry("toggle") /\ InList(visible_entries, PreSelectedEntry.path)) =>
        /\ ~ hist.panic
        /\ IsSome(selected)
        /\ Unwrap(selected) < Len(visible_entries)
        /\ visible_entries[Unwrap(selected) + 1].path = PreSelectedEntry.path

\* C7 witness: a toggle below the top of the list changed the visible list
\* and the cursor is still on the toggled path.
C7_Witness ==
    /\ CalledOnEntry("toggle")
    /\ Unwrap(hist.pre.selected) > 0
    /\ Len(visible_entries) # Len(hist.pre.visible_entries)
    /\ IsSome(selected)
    /\ visible_entries[Unwrap(selected) + 1].path = PreSelectedEntry.path

\* The three-entry tree [src dir, src/main file, README file] with src
\* expanded and the cursor on index 1, as the state a toggle started from.
ScenarioBTree(master) ==
    /\ Len(master) = 3
    /\ master[1].depth = 1 /\ master[1].is_dir /\ master[1].is_expanded
    /\ master[2].depth = 2 /\ ~ master[2].is_dir
    /\ master[3].depth = 1 /\ ~ master[3].is_dir

ToggledInScenarioB ==
    /\ CalledOnEntry("toggle")
    /\ ScenarioBTree(hist.pre.master_entries)
    /\ hist.pre.selected = Some(1)

C9_WrapAround ==
    /\ CalledOnEntry("next") =>
          /\ ~ hist.panic
          /\ selected = Some((Unwrap(hist.pre.selected) + 1) % Len(hist.pre.visible_entries))
    /\ CalledOnEntry("previous") =>
          /\ ~ hist.panic
          /\ selected = Some((Unwrap(hist.pre.selected) + Len(hist.pre.visible_entries) - 1)
                                % Len(hist.pre.visible_entries))
    /\ (IsSome(selected) /\ Unwrap(selected) < Len(visible_entries)) =>
          \A oc \in BOOLEAN :
              /\ previous(next(App, oc).app, oc).app.selected = selected
              /\ next(previous(App, oc).app, oc).app.selected = selected

\* C9 witness: next on the last entry of a list of at least two entries
\* wrapped to index 0.
C9_Witness ==
    /\ CalledOnEntry("next")
    /\ Len(hist.pre.visible_entries) >= 2
    /\ Unwrap(hist.pre.selected) = Len(hist.pre.visible_entries) - 1
    /\ selected = Some(0)

\* 0-based position in the master list of the entry with the path of visible
\* entry k (-1: no master entry has that path).
MasterIndex(k) ==
    LET found == Position(master_entries, visible_entries[k].path)
    IN  IF IsSome(found) THEN Unwrap(found) ELSE -1

\* C11: the visible list is a subsequence of the master list: every visible
\* entry has the path of a master entry, and the visible entries are in
\* strictly increasing master position (so no path occurs twice).
C11_VisibleIsSubsequence ==
    /\ \A k \in 1..Len(visible_entries) : MasterIndex(k) >= 0
    /\ \A k, l \in 1..Len(visible_entries) : k < l => MasterIndex(k) < MasterIndex(l)

\* C11 witness: after a toggle, two visible entries stand next to each other
\* with a hidden master entry between them.
C11_Witness ==
    /\ hist.op = "toggle"
    /\ \E k \in 1..(Len(visible_entries) - 1) : MasterIndex(k + 1) > MasterIndex(k) + 1

AllDirs(master, flag) ==
    \A i \in 1..Len(master) : master[i].is_dir => master[i].is_expanded = flag

\* C12: when every directory is expanded the visible list is the whole
\* master list, in the same order.
C12_AllExpandedShowsAll ==
    AllDirs(master_entries, TRUE) => visible_entries = master_entries

\* C12 witness: a toggle expanded the last collapsed directory of a tree
\* that is three levels deep.
C12_Witness ==
    /\ hist.op = "toggle"
    /\ AllDirs(master_entries, TRUE)
    /\ ~ AllDirs(hist.pre.master_entries, TRUE)
    /\ \E i \in 1..Len(master_entries) : master_entries[i].depth = 3
    /\ Len(visible_entries) > Len(hist.pre.visible_entries)

\* C13: when every directory is collapsed the visible list is the list of
\* the depth-1 entries, in master order.
C13_AllCollapsedShowsTopLevel ==
    AllDirs(master_entries, FALSE) =>
        visible_entries = SelectSeq(master_entries, LAMBDA e : e.depth = 1)

\* C13 witness: a toggle collapsed the last expanded directory, and entries
\* below depth 1 as well as a depth-1 entry after a directory exist.
C13_Witness ==
    /\ hist.op = "toggle"
    /\ AllDirs(master_entries, FALSE)
    /\ ~ AllDirs(hist.pre.master_entries, FALSE)
    /\ Len(visible_entries) < Len(master_entries)
    /\ Len(visible_entries) >= 2

\* The cursor of AppState a is on a directory with the given flag.
OnDir(a, flag) ==
    /\ IsSome(get_selected_entry(a))
    /\ Unwrap(get_selected_entry(a)).is_dir
    /\ Unwrap(get_selected_entry(a)).is_expanded = flag

\* C14: when a toggle has expanded the collapsed directory under the cursor,
\* toggling again gives back the AppState from before the first toggle: the
\* same visible list, the same cursor index and the same flags.
C14_ExpandCollapseRoundTrip ==
    (hist.op = "toggle" /\ OnDir(hist.pre, FALSE)) =>
        /\ ~ hist.panic
        /\ OnDir(App, TRUE)
        /\ \A oc \in BOOLEAN :
              /\ ~ toggle_selected_directory(App, oc).panic
              /\ toggle_selected_directory(App, oc).app = hist.pre

\* C14 witness: the expanding toggle made entries visible, below the top of
\* the list, and the collapsing toggle hides them again.
C14_Witness ==
    /\ hist.op = "toggle"
    /\ OnDir(hist.pre, FALSE)
    /\ Unwrap(selected) > 0
    /\ Len(visible_entries) > Len(hist.pre.visible_entries)
    /\ toggle_selected_directory(App, TRUE).app.visible_entries = hist.pre.visible_entries

\* C21: right after construction a master entry is expanded exactly when
\* expand_level is Some(L) and the entry is a directory with depth < L (so
\* with None every entry is collapsed); no master entry ever has the root's
\* path.
C21_ExpandedBelowLevel ==
    /\ hist.op = "new" =>
          \A i \in 1..Len(master_entries) :
              master_entries[i].is_expanded <=>
                  /\ IsSome(expand_level)
                  /\ master_entries[i].is_dir
                  /\ master_entries[i].depth < Unwrap(expand_level)
    /\ \A i \in 1..Len(master_entries) :
          master_entries[i].path # RootPath /\ master_entries[i].depth >= 1

\* C21 witness: constructed with a level that expands one directory and
\* leaves a deeper one collapsed.
C21_Witness ==
    /\ hist.op = "new"
    /\ IsSome(expand_level)
    /\ \E i, j \in 1..Len(master_entries) :
          /\ master_entries[i].is_dir /\ master_entries[i].is_expanded
          /\ master_entries[j].is_dir /\ ~ master_entries[j].is_expanded
          /\ master_entries[j].depth = Unwrap(expand_level)

\* C24: get_selected_entry returns the visible entry at the cursor index
\* when the index is defined and below the length of the visible list, and
\* None otherwise.
C24_SelectedEntryOrNone ==
    LET entry == get_selected_entry(App)
    IN  /\ (IsSome(selected) /\ Unwrap(selected) < Len(visible_entries)) =>
              /\ IsSome(entry)
              /\ Unwrap(entry) = visible_entries[Unwrap(selected) + 1]
        /\ (~ IsSome(selected) \/ Unwrap(selected) >= Len(visible_entries)) =>
              entry = None

\* C24 witness: the cursor index is defined and not below the length of the
\* visible list (next() on an empty list), and get_selected_entry is None.
C24_Witness ==
    /\ hist.op = "next"
    /\ IsSome(selected)
    /\ Unwrap(selected) >= Len(visible_entries)
    /\ get_selected_entry(App) = None

\* The paths below directory path d.
IsBelow(d, e) == IsProperPrefix(d, e.path)

\* The master entries below d whose directory ancestors are all expanded.
VisibleBelow(master, d) ==
    LET idx == { i \in 1..Len(master) :
                   /\ IsBelow(d, master[i])
                   /\ \A j \in Ancestors(master, i) : master[j].is_expanded }
    IN  SelectSeq([i \in 1..Len(master) |-> [e |-> master[i], keep |-> i \in idx]],
                  LAMBDA r : r.keep)

\* C25: a toggle of the directory at visible index i leaves the entries
\* before index i as they were and the directory at index i (with its flag
\* flipped); on expand the visible entries below the directory come in one
\* block right after it, in master order, followed by the old tail; on
\* collapse the tail loses exactly the entries below the directory.
C25_ToggleChangesOnlyBelow ==
    (CalledOnEntry("toggle") /\ PreSelectedEntry.is_dir) =>
        LET i == Unwrap(hist.pre.selected)
            pre == hist.pre.visible_entries
            d == PreSelectedEntry.path
            rest == SubSeq(pre, i + 2, Len(pre))
            tail == SubSeq(visible_entries, i + 2, Len(visible_entries))
            block == VisibleBelow(master_entries, d)
        IN  /\ ~ hist.panic
            /\ Len(visible_entries) >= i + 1
            /\ SubSeq(visible_entries, 1, i) = SubSeq(pre, 1, i)
            /\ visible_entries[i + 1] = [pre[i + 1] EXCEPT !.is_expanded = ~ @]
            /\ IF ~ PreSelectedEntry.is_expanded
               THEN /\ \A k \in 1..Len(pre) : ~ IsBelow(d, pre[k])
                    /\ tail = [k \in 1..Len(block) |-> block[k].e] \o rest
               ELSE /\ \A k \in 1..Len(visible_entries) : ~ IsBelow(d, visible_entries[k])
                    /\ tail = SelectSeq(rest, LAMBDA e : ~ IsBelow(d, e))
            /\ SelectSeq(tail, LAMBDA e : ~ IsBelow(d, e))
                   = SelectSeq(rest, LAMBDA e : ~ IsBelow(d, e))

\* C25 witness: a directory that is not the first visible entry was
\* expanded, entries came in below it and an entry follows them.
C25_Witness ==
    /\ CalledOnEntry("toggle")
    /\ PreSelectedEntry.is_dir
    /\ ~ PreSelectedEntry.is_expanded
    /\ Unwrap(hist.pre.selected) >= 1
    /\ Len(visible_entries) > Len(hist.pre.visible_entries)
    /\ ~ IsBelow(PreSelectedEntry.path, visible_entries[Len(visible_entries)])

\* C32: with a non-empty master list the visible list is never empty and the
\* cursor index is always defined (0 right after construction), whatever
\* next / previous / toggle calls were made, and no call panics; with an
\* empty master list the visible list is always empty.
C32_CursorDefinedOnNonEmptyList ==
    /\ Len(master_entries) > 0 =>
          /\ Len(visible_entries) > 0
          /\ IsSome(selected)
          /\ ~ hist.panic
          /\ hist.op = "new" => selected = Some(0)
    /\ Len(master_entries) = 0 => Len(visible_entries) = 0

\* C32 witness: previous() was called at the top of a list of several
\* entries and the cursor is still defined.
C32_Witness ==
    /\ hist.op = "previous"
    /\ hist.pre.selected = Some(0)
    /\ Len(visible_entries) >= 2
    /\ IsSome(selected)

\* C34: a toggle that collapses the directory under the cursor changes the
\* flag of no entry below it, every toggle flips only an entry that was
\* visible, and the toggle after the collapse gives back the AppState from
\* before it: the visible list with its nested expanded directories and the
\* cursor index.
C34_CollapseExpandRoundTrip ==
    /\ hist.op = "toggle" =>
          /\ Len(master_entries) = Len(hist.pre.master_entries)
          /\ \A i \in 1..Len(master_entries) :
                master_entries[i] # hist.pre.master_entries[i] =>
                    InList(hist.pre.visible_entries, master_entries[i].path)
    /\ (hist.op = "toggle" /\ OnDir(hist.pre, TRUE)) =>
          /\ ~ hist.panic
          /\ OnDir(App, FALSE)
          /\ \A i \in 1..Len(master_entries) :
                IsBelow(PreSelectedEntry.path, master_entries[i]) =>
                    master_entries[i] = hist.pre.master_entries[i]
          /\ \A oc \in BOOLEAN :
                /\ ~ toggle_selected_directory(App, oc).panic
                /\ toggle_selected_directory(App, oc).app = hist.pre

\* C34 witness: the collapsed directory had an expanded directory below it
\* whose entries were visible too.
C34_Witness ==
    /\ hist.op = "toggle"
    /\ OnDir(hist.pre, TRUE)
    /\ \E k, l \in 1..Len(hist.pre.visible_entries) :
          /\ IsBelow(PreSelectedEntry.path, hist.pre.visible_entries[k])
          /\ hist.pre.visible_entries[k].is_dir
          /\ hist.pre.visible_entries[k].is_expanded
          /\ IsBelow(hist.pre.visible_entries[k].path, hist.pre.visible_entries[l])
    /\ toggle_selected_directory(App, TRUE).app.visible_entries = hist.pre.visible_entries

\* args.expand_level as a number of levels (None expands no level).
LevelOf(level) == IF IsSome(level) THEN Unwrap(level) ELSE 0

\* C35: right after construction with expand_level L the visible list is
\* the master entries of depth <= max(L, 1), in master order; L = 0 and
\* L = 1 give the visible list of no expand_level; the cursor is Some(0)
\* when the visible list is not empty and None when it is.
C35_InitialViewByDepth ==
    hist.op = "new" =>
        LET L == LevelOf(expand_level)
            limit == IF L > 1 THEN L ELSE 1
        IN  /\ visible_entries = SelectSeq(master_entries, LAMBDA e : e.depth <= limit)
            /\ L <= 1 => visible_entries = AppStateNew(walk, None).visible_entries
            /\ selected = IF Len(visible_entries) > 0 THEN Some(0) ELSE None

\* C35 witness: constructed with L = 2 on a walk with an entry of depth 3:
\* the entries of depth 2 are visible, the entry of depth 3 is not.
C35_Witness ==
    /\ hist.op = "new"
    /\ expand_level = Some(2)
    /\ \E k \in 1..Len(visible_entries) : visible_entries[k].depth = 2
    /\ \E i \in 1..Len(master_entries) : master_entries[i].depth = 3
    /\ selected = Some(0)

\* The stack after the pop loop for master[i].
PoppedAt(master, i) == PopStack(StackAt(master, i), master[i].depth)

\* Directory i of the master list has no entry below it.
Childless(master, i) ==
    /\ master[i].is_dir
    /\ i = Len(master) \/ master[i + 1].depth <= master[i].depth

\* C37: in regenerate_visible_entries, after the pop loop for an entry of
\* depth d the stack has length d - 1 and its k-th element is the flag of
\* the entry's ancestor directory of depth k; the flag a childless directory
\* pushes is gone after the pop loop of the next entry, and flipping it
\* changes the visibility of no entry.
C37_StackHoldsAncestorFlags ==
    /\ \A i \in 1..Len(master_entries) :
          LET st == PoppedAt(master_entries, i)
              d == master_entries[i].depth
          IN  /\ Len(st) = d - 1
              /\ \A k \in 1..(d - 1) :
                    \E j \in Ancestors(master_entries, i) :
                        /\ master_entries[j].depth = k
                        /\ st[k] = master_entries[j].is_expanded
    /\ \A i \in 1..Len(master_entries) :
          Childless(master_entries, i) =>
              /\ i < Len(master_entries) =>
                    PoppedAt(master_entries, i + 1)
                        = SubSeq(PoppedAt(master_entries, i), 1,
                                 master_entries[i + 1].depth - 1)
              /\ LET flipped == [master_entries EXCEPT ![i].is_expanded = ~ @]
                     shown == regenerate_visible_entries(flipped)
                 IN  [k \in 1..Len(shown) |-> shown[k].path]
                         = [k \in 1..Len(visible_entries) |-> visible_entries[k].path]

\* C37 witness: an expanded childless directory of depth 2 is followed by an
\* entry of depth 1, so two flags are popped for that entry.
C37_Witness ==
    /\ hist.op = "toggle"
    /\ \E i \in 1..(Len(master_entries) - 1) :
          /\ Childless(master_entries, i)
          /\ master_entries[i].is_expanded
          /\ master_entries[i].depth = 2
          /\ master_entries[i + 1].depth = 1
          /\ Len(StackAt(master_entries, i + 1)) = 2
          /\ PoppedAt(master_entries, i + 1) = << >>

(* ----------------------- properties of a session ----------------------- *)
\* C3 (as claimed): when run() has returned the error of a failed draw or key
\* read, raw mode is disabled and the alternate screen is left; and so it is
\* on every return of run() after setup_terminal succeeded.
C3_TerminalRestoredOnEveryExit ==
    /\ (pc = "done" /\ result = "err" /\ hist.op \in {"draw", "read"}) =>
          (~ raw_mode /\ ~ alt_screen)
    /\ (pc = "done" /\ calls.setup = 1 /\ hist.op # "setup_terminal") =>
          (~ raw_mode /\ ~ alt_screen)

\* The interaction loop has reached Exited: run_app returned a PostExitAction.
LoopExited == post_exit_action # NoAction

\* C4: setup_terminal is called at most once and before the loop's first
\* draw, every draw and every key read happens after it and before
\* restore_terminal, in raw mode on the alternate screen, and
\* restore_terminal is called exactly once, when the loop has ended by quit
\* or by open-file, and only then.
C4_EnterOnceLeaveOnce ==
    /\ calls.setup <= 1
    /\ calls.restore <= 1
    /\ pc \in {"start", "new", "setup"} => (calls.setup = 0 /\ hist.op \notin {"draw", "read"})
    /\ (pc \in {"draw", "read"} \/ hist.op \in {"draw", "read"}) =>
          (calls.setup = 1 /\ calls.restore = 0)
    /\ pc \in {"draw", "read"} => (raw_mode /\ alt_screen)
    /\ calls.restore = 1 <=> (LoopExited /\ pc # "restore")
    /\ pc = "restore" => LoopExited
    /\ (LoopExited /\ pc \in {"editor", "done"} /\ result # "err") =>
          (~ raw_mode /\ ~ alt_screen)

\* C4 witness: the loop drew, was left by open-file, and terminal mode has
\* been left once.
C4_Witness ==
    /\ post_exit_action.kind = "OpenFile"
    /\ pc = "editor"
    /\ calls.setup = 1
    /\ calls.restore = 1
    /\ ~ raw_mode

\* A master list without its is_expanded flags.
Skeleton(master) == [i \in 1..Len(master) |-> [master[i] EXCEPT !.is_expanded = FALSE]]

\* C10: once AppState::new has built the master list, no step of the session
\* changes its length, its order, or any field of an entry other than
\* is_expanded.
C10_MasterListFrame ==
    /\ hist.op \notin {"none", "check_path"} =>
          Skeleton(master_entries) = Skeleton(scan_directory(walk))
    /\ hist.op \notin {"none", "check_path", "new"} =>
          Skeleton(master_entries) = Skeleton(hist.pre.master_entries)

\* C10 witness: an Enter key collapsed an expanded directory that has entries
\* below it.
C10_Witness ==
    /\ hist.op = "read"
    /\ hist.event = "Enter"
    /\ \E i \in 1..Len(master_entries) :
          /\ hist.pre.master_entries[i].is_expanded
          /\ ~ master_entries[i].is_expanded
          /\ Len(visible_entries) < Len(hist.pre.visible_entries)

\* The last step was the handling of key event ev by run_app.
Handled(evs) == hist.op = "read" /\ hist.event \in evs

\* The entry that was under the cursor when the last step started.
PreEntry == get_selected_entry(hist.pre)

\* C15: Enter on a selected directory flips that directory's flag and no
\* other, rebuilds the visible list, leaves the cursor on the directory and
\* the loop goes on; Enter on a selected file ends the loop with OpenFile of
\* exactly that file's path and changes nothing of the AppState; Enter with
\* no selected entry changes nothing and the loop goes on.
C15_EnterTogglesOrOpens ==
    Handled({"Enter"}) =>
        /\ ~ hist.panic
        /\ (IsSome(PreEntry) /\ Unwrap(PreEntry).is_dir) =>
              /\ pc = "draw"
              /\ post_exit_action = NoAction
              /\ Len(master_entries) = Len(hist.pre.master_entries)
              /\ \A i \in 1..Len(master_entries) :
                    master_entries[i] =
                        IF hist.pre.master_entries[i].path = Unwrap(PreEntry).path
                        THEN [hist.pre.master_entries[i] EXCEPT !.is_expanded = ~ @]
                        ELSE hist.pre.master_entries[i]
              /\ visible_entries = regenerate_visible_entries(master_entries)
              /\ IsSome(get_selected_entry(App))
              /\ Unwrap(get_selected_entry(App)).path = Unwrap(PreEntry).path
        /\ (IsSome(PreEntry) /\ ~ Unwrap(PreEntry).is_dir) =>
              /\ pc = "restore"
              /\ post_exit_action = OpenFile(Unwrap(PreEntry).path)
              /\ App = hist.pre
        /\ ~ IsSome(PreEntry) =>
              /\ pc = "draw"
              /\ post_exit_action = NoAction
              /\ App = hist.pre

\* C15 witness: Enter on a file below an expanded directory ended the loop
\* with that file's path.
C15_Witness ==
    /\ Handled({"Enter"})
    /\ pc = "restore"
    /\ post_exit_action.kind = "OpenFile"
    /\ Len(post_exit_action.path) = 2
    /\ Unwrap(selected) > 0

\* C16: a quit key ends the loop with PostExitAction::None from every state
\* of the loop and changes nothing of the AppState, and after it the editor
\* is not started.
C16_QuitEndsWithoutAction ==
    /\ Handled(QuitKeys) =>
          /\ ~ hist.panic
          /\ pc = "restore"
          /\ post_exit_action = ExitNone
          /\ App = hist.pre
    /\ post_exit_action = ExitNone =>
          /\ pc \in {"restore", "done"}
          /\ calls.editor = 0

\* C16 witness: run() has returned Ok after a quit with the cursor below the
\* top and a directory expanded, and no editor was started.
C16_Witness ==
    /\ post_exit_action = ExitNone
    /\ pc = "done"
    /\ result = "ok"
    /\ calls.editor = 0
    /\ IsSome(selected) /\ Unwrap(selected) > 0
    /\ \E i \in 1..Len(master_entries) : master_entries[i].is_expanded

\* C17: an event that is not quit, move-down, move-up or Enter leaves the
\* master list, the flags, the visible list and the cursor unchanged and the
\* loop goes on; move-down and move-up change nothing but the cursor index.
C17_OtherEventsChangeNothing ==
    /\ Handled({"other_key", "non_key"}) =>
          /\ ~ hist.panic
          /\ pc = "draw"
          /\ post_exit_action = NoAction
          /\ App = hist.pre
    /\ Handled(DownKeys \cup UpKeys) =>
          /\ post_exit_action = NoAction
          /\ master_entries = hist.pre.master_entries
          /\ visible_entries = hist.pre.visible_entries

\* C17 witness: an unbound key was read with the cursor below the top and a
\* directory expanded.
C17_Witness ==
    /\ Handled({"other_key"})
    /\ pc = "draw"
    /\ IsSome(selected) /\ Unwrap(selected) > 0
    /\ \E i \in 1..Len(master_entries) : master_entries[i].is_expanded

\* setup_terminal was the last step and it failed.
SetupFailed == hist.op = "setup_terminal" /\ pc = "done"

\* C18: with a missing or non-directory root run() returns an error without
\* having built an AppState, entered terminal mode, drawn, read a key or
\* started the editor; when setup_terminal fails run() returns an error
\* without having drawn, read a key or started the editor.
C18_StartupErrorsAbort ==
    /\ root_kind # "dir" =>
          /\ pc \in {"start", "done"}
          /\ pc = "done" => result = "err"
          /\ calls = NoCalls
          /\ ~ raw_mode /\ ~ alt_screen
          /\ hist.op \in {"none", "check_path"}
          /\ master_entries = << >>
    /\ SetupFailed =>
          /\ result = "err"
          /\ ~ calls.drawn /\ ~ calls.key_read
          /\ calls.editor = 0 /\ calls.restore = 0
          /\ post_exit_action = NoAction

\* C18 witness: setup_terminal failed after the AppState of a non-empty
\* directory was built.
C18_Witness ==
    /\ SetupFailed
    /\ result = "err"
    /\ Len(master_entries) > 0

\* C19 (as claimed): when the editor exits with a non-zero status or cannot
\* be started, run() does not return an error.
C19_EditorFailureIgnored ==
    (hist.op = "editor" /\ hist.event \in {"exit_nonzero", "spawn_fails"}) => result = "ok"

\* The walker yielded an Err for the root itself.
RootWalkFailed == \E k \in 1..Len(walk) : ~ walk[k].ok /\ walk[k].path = RootPath

\* AppState::new has run.
AppStateBuilt == hist.op \notin {"none", "check_path"}

\* C20 (as claimed): an Err the walker yields for an entry below the root
\* costs the master list nothing but that item, and an Err for the root
\* itself makes run() return an error before terminal mode is entered and
\* without an AppState being built.
C20_RootWalkErrorIsFatal ==
    /\ AppStateBuilt =>
          [i \in 1..Len(master_entries) |-> master_entries[i].path] =
              LET kept == SelectSeq(walk, LAMBDA r : r.ok /\ r.path # RootPath)
              IN  [i \in 1..Len(kept) |-> kept[i].path]
    /\ RootWalkFailed =>
          /\ ~ AppStateBuilt
          /\ calls.setup = 0
          /\ pc \in {"start", "new", "done"}
          /\ pc = "done" => result = "err"

\* The last step was a step of run_app's loop.
LoopStep == hist.op \in {"draw", "read"}

C23_TerminalAllOrNothing ==
    /\ SetupFailed => ~ raw_mode
    /\ (hist.op = "restore_terminal" /\ raw_mode) => ~ alt_screen

\* C29: in a session, Enter on a selected directory leaves the cursor index
\* as it was: the directory is found in the rebuilt visible list, at the
\* same index, so the cursor is set from the position found and never from
\* the clamp of the old index.
C29_ToggleKeepsCursorIndex ==
    (Handled({"Enter"}) /\ IsSome(PreEntry) /\ Unwrap(PreEntry).is_dir) =>
        /\ ~ hist.panic
        /\ hist.fault = "none"
        /\ Position(visible_entries, Unwrap(PreEntry).path) = hist.pre.selected
        /\ selected = hist.pre.selected

\* C29 witness: Enter collapsed a directory that was not the first visible
\* entry and had visible entries below it.
C29_Witness ==
    /\ Handled({"Enter"})
    /\ IsSome(PreEntry)
    /\ Unwrap(PreEntry).is_dir
    /\ Unwrap(PreEntry).is_expanded
    /\ Unwrap(hist.pre.selected) >= 1
    /\ Len(visible_entries) < Len(hist.pre.visible_entries)
    /\ selected = hist.pre.selected

\* C30 (as claimed): no step of a session evaluates len - 1 with an empty
\* visible list or indexes the visible list past its end.
C30_NoUnderflowNoOutOfBounds ==
    hist.fault = "none" /\ ~ hist.panic

\* C31: when the loop renders, the stored visible list is what
\* regenerate_visible_entries gives for the current master list, and every
\* visible entry carries the is_expanded flag of the master entry with its
\* path.
C31_VisibleListFreshAtRender ==
    (pc = "draw" \/ hist.op = "draw") =>
        /\ visible_entries = regenerate_visible_entries(master_entries)
        /\ \A k \in 1..Len(visible_entries) :
              \E i \in 1..Len(master_entries) :
                  /\ master_entries[i].path = visible_entries[k].path
                  /\ master_entries[i].is_expanded = visible_entries[k].is_expanded

\* C31 witness: a render after Enter has collapsed a directory that was
\* expanded at construction, with another directory shown expanded.
C31_Witness ==
    /\ hist.op = "draw"
    /\ calls.key_read
    /\ IsSome(expand_level)
    /\ \E k, l \in 1..Len(visible_entries) :
          /\ visible_entries[k].is_dir /\ visible_entries[k].is_expanded
          /\ visible_entries[l].is_dir /\ ~ visible_entries[l].is_expanded
          /\ visible_entries[l].depth < Unwrap(expand_level)

\* C33: the editor is started at most once; when it is started or about to
\* be, the loop has ended with OpenFile of a file of the master list,
\* restore_terminal has returned Ok, raw mode is off and the alternate
\* screen is left; it is started with the path of that file; it is not
\* started when restore_terminal failed or the loop ended without OpenFile.
C33_EditorOnlyAfterRestore ==
    /\ calls.editor <= 1
    /\ (pc = "editor" \/ calls.editor = 1) =>
          /\ post_exit_action.kind = "OpenFile"
          /\ \E i \in 1..Len(master_entries) :
                /\ master_entries[i].path = post_exit_action.path
                /\ ~ master_entries[i].is_dir
          /\ calls.setup = 1 /\ calls.restore = 1
          /\ ~ raw_mode /\ ~ alt_screen
    /\ calls.editor = 1 =>
          /\ calls.editor_arg = post_exit_action.path
          /\ pc = "done"
    /\ (hist.op = "restore_terminal" /\ result = "err") =>
          /\ calls.editor = 0
          /\ pc = "done"
    /\ post_exit_action.kind # "OpenFile" => calls.editor = 0

\* C33 witness: the editor has run on a file of depth 2 and run() returned
\* Ok.
C33_Witness ==
    /\ hist.op = "editor"
    /\ calls.editor = 1
    /\ Len(calls.editor_arg) = 2
    /\ result = "ok"
    /\ ~ raw_mode /\ ~ alt_screen

(* --------------------- properties of the classic view ------------------ *)
\* C26: the classic view on a path that is missing or not a directory
\* returns the error "is not a directory", writes no line on standard
\* output, counts nothing and never starts the walker.
C26_NotADirectoryPrintsNothing ==
    root_kind # "dir" =>
        /\ pc \in {"view_start", "done"}
        /\ stdout = << >>
        /\ work = {}
        /\ dir_count = 0 /\ file_count = 0
        /\ hist.op \in {"none", "check_path"}
        /\ pc = "done" => (result = "err" /\ stderr = << "is not a directory" >>)

\* C26 witness: the classic view has returned its error for a missing path.
C26_Witness ==
    /\ root_kind = "missing"
    /\ pc = "done"
    /\ result = "err"
    /\ stderr = << "is not a directory" >>

\* The directory an entry line's path is in.
DirOf(path) == SubSeq(path, 1, Len(path) - 1)

\* C27 (as claimed): two entry lines of the same directory stand on
\* standard output in ascending order of their names.
C27_SiblingsInNameOrder ==
    \A i, j \in 1..Len(stdout) :
        (/\ i < j
         /\ stdout[i].kind = "entry" /\ stdout[j].kind = "entry"
         /\ DirOf(stdout[i].path) = DirOf(stdout[j].path))
        => stdout[i].name < stdout[j].name

\* The connector of an entry that is not the last child (U+251C U+2500
\* U+2500 and a space), in ASCII.
ConnectorNotLast == "+-- "

\* The entry with this path is the last of the entries of its directory
\* that the view writes.
IsLastChild(path) ==
    ~ \E k \in 1..Len(walk) :
          /\ walk[k].ok /\ walk[k].depth >= 1
          /\ dirs_only => walk[k].is_dir
          /\ DirOf(walk[k].path) = DirOf(path)
          /\ walk[k].path[Len(walk[k].path)] > path[Len(path)]

\* C28 (as claimed): an entry line has the connector of a last child when
\* the entry is the last child of its directory, and the connector of a
\* child that is not the last otherwise.
C28_ConnectorByPosition ==
    \A i \in 1..Len(stdout) :
        stdout[i].kind = "entry" =>
            stdout[i].connector =
                IF IsLastChild(stdout[i].path) THEN Connector ELSE ConnectorNotLast

\* The items the visitor has counted: handed to it, Ok, below the root, and
\* a directory when dirs_only is set; by kind.
Counted(is_dir) ==
    { k \in visited :
        /\ walk[k].ok
        /\ walk[k].depth >= 1
        /\ walk[k].is_dir = is_dir
        /\ dirs_only => walk[k].is_dir }

\* The entry lines on standard output of the items of one kind.
EntryLines(is_dir) ==
    { i \in 1..Len(stdout) :
        /\ stdout[i].kind = "entry"
        /\ \E k \in Counted(is_dir) : walk[k].path = stdout[i].path }

\* C36: whatever the order in which the walker's workers hand the items to
\* the visitor, dir_count and file_count are the numbers of directories and
\* files the visitor has processed, and the summary prints these numbers;
\* every entry line is the line of one processed item, and only the line
\* whose write failed and stopped the walk can be missing; the depth-0 item
\* is neither counted nor written; with dirs_only no file is counted or
\* written.
C36_CountsMatchProcessedEntries ==
    /\ dir_count = Cardinality(Counted(TRUE))
    /\ file_count = Cardinality(Counted(FALSE))
    /\ \A i \in 1..Len(stdout) :
          /\ stdout[i].kind = "summary" =>
                /\ stdout[i].dirs = Cardinality(Counted(TRUE))
                /\ stdout[i].files = Cardinality(Counted(FALSE))
                /\ i = Len(stdout)
          /\ stdout[i].kind = "entry" =>
                /\ stdout[i].path # RootPath
                /\ i \in EntryLines(TRUE) \cup EntryLines(FALSE)
    /\ Cardinality(EntryLines(TRUE)) + Cardinality(EntryLines(FALSE))
          \in { dir_count + file_count, dir_count + file_count - 1 }
    /\ (work # {} \/ (pc = "walk" /\ hist.op = "header")) =>
          Cardinality(EntryLines(TRUE)) + Cardinality(EntryLines(FALSE))
              = dir_count + file_count
    /\ dirs_only => (file_count = 0 /\ EntryLines(FALSE) = {})

\* C36 witness: the summary is written after the workers handed a file to
\* the visitor before a directory that the walk lists first, and both
\* counters are positive.
C36_Witness ==
    /\ pc = "done"
    /\ Len(stdout) >= 4
    /\ stdout[Len(stdout)].kind = "summary"
    /\ stdout[Len(stdout)].dirs >= 1
    /\ stdout[Len(stdout)].files >= 1
    /\ \E i, j \in 1..Len(stdout) :
          /\ i < j
          /\ i \in EntryLines(FALSE) /\ j \in EntryLines(TRUE)
          /\ stdout[j].name < stdout[i].name

====
